---- MODULE Spec2Model ----
(***************************************************************************)
(* Model of the over-the-air firmware update of roehann/cota               *)
(* (src/lib/ota.py, src/main.py): the ThingsBoard attribute client, the    *)
(* GitHub fetch client, the update pipeline download_firmware_files and    *)
(* the poll loop of main().                                                *)
(*                                                                         *)
(* Python strings are TLA+ strings.  A string that the code splits at "/"  *)
(* is split by looking it up among the joined forms of a finite universe   *)
(* of segment sequences.  JSON values are tagged records so that an        *)
(* integer 2 and a string "2" are different values, as in Python.          *)
(* A filesystem is a function from paths (sequences of names below the     *)
(* working directory) to entries; the working directory itself always      *)
(* exists.  In the inputs drawn here a name is either always a file or     *)
(* always a directory.                                                     *)
(***************************************************************************)
EXTENDS Integers, Sequences, FiniteSets, TLC

\* ---------------------------------------------------------------- bounds
\* iterations of the poll loop of main()
MaxPolls == 2
\* transient network failures (RuntimeError) the environment injects in a run
MaxTransient == 3
\* descriptors the operator of the backend publishes while the device runs
MaxPublishes == 1

\* ------------------------------------------------------ program constants
\* default of the parameter retries of the three request helpers
Retries == 3

FW_TITLE_ATTR == "fw_title"
FW_VERSION_ATTR == "fw_version"
FW_URL_ATTR == "fw_url"
FW_STATE_ATTR == "fw_state"
FW_ERROR_ATTR == "fw_error"
FW_UPDATE_FAILED == "FAILED"
FW_UPDATE_DOWNLOADING == "DOWNLOADING"
FW_UPDATE_DOWNLOADED == "DOWNLOADED"
FW_UPDATE_VERIFIED == "VERIFIED"
FW_UPDATE_UPDATING == "UPDATING"
FW_UPDATE_UPDATED == "UPDATED"
ATTRIBUTE_KEYS == <<FW_TITLE_ATTR, FW_VERSION_ATTR, FW_URL_ATTR>>

temp_firmware_download_folder == "temp-firmware"
keep_files == {"main.py", "boot.py", "settings.toml"}
keep_folders == {temp_firmware_download_folder, "lib"}

\* the directory argument of download_firmware_files: "." (the default)
directory == << >>
\* temp_firmware_download_folder as a path below the working directory
StagingPath == <<temp_firmware_download_folder>>

\* ------------------------------------------------------------ JSON values
StrV(str) == [t |-> "str", i |-> 0, s |-> str]
IntV(n) == [t |-> "int", i |-> n, s |-> ""]
NoneV == [t |-> "none", i |-> 0, s |-> ""]

EmptyDict == [k \in {} |-> NoneV]

\* dict.get(key) and dict.get(key, default)
Get(d, k) == IF k \in DOMAIN d THEN d[k] ELSE NoneV
GetDefault(d, k, default) == IF k \in DOMAIN d THEN d[k] ELSE default

Digit == <<"1", "2", "3", "4", "5", "6", "7", "8", "9">>

RECURSIVE DecStr(_)
\* the decimal digits of an integer
DecStr(n) ==
    IF n < 0 THEN "-" \o DecStr(-n)
    ELSE IF n = 0 THEN "0"
    ELSE IF n < 10 THEN Digit[n]
    ELSE DecStr(n \div 10) \o (IF n % 10 = 0 THEN "0" ELSE Digit[n % 10])

\* Python str() applied to a JSON value
PyStr(v) ==
    CASE v.t = "int" -> StrV(DecStr(v.i))
      [] v.t = "str" -> v
      [] OTHER -> StrV("None")

\* type(v).__name__
PyTypeName(v) ==
    CASE v.t = "str" -> "str"
      [] v.t = "int" -> "int"
      [] v.t = "none" -> "NoneType"

RECURSIVE Join(_, _)
\* sep.join(segs)
Join(segs, sep) ==
    IF Len(segs) = 0 THEN ""
    ELSE IF Len(segs) = 1 THEN segs[1]
    ELSE segs[1] \o sep \o Join(Tail(segs), sep)

\* ------------------------------------------------------------- filesystem
FileEntry(data) == [kind |-> "file", data |-> data]
DirEntry == [kind |-> "dir", data |-> ""]

\* os.stat(p) succeeds: p names an entry (the working directory is one)
Exists(f, p) == p = << >> \/ p \in DOMAIN f
\* p names a directory
IsDir(f, p) == p = << >> \/ (p \in DOMAIN f /\ f[p].kind = "dir")
IsPrefix(p, q) == Len(p) <= Len(q) /\ SubSeq(q, 1, Len(p)) = p
Children(f, d) == {p \in DOMAIN f : Len(p) = Len(d) + 1 /\ IsPrefix(d, p)}
\* os.listdir(d): the names in d (the order is not specified)
listdir(f, d) == {p[Len(p)] : p \in Children(f, d)}
\* os.remove(p) and os.rmdir(p) of an empty directory
FsRemove(f, p) == [q \in DOMAIN f \ {p} |-> f[q]]

\* the error of the walk to the last name of p: ENOENT when a directory on
\* the way is missing, ENOTDIR when a name on the way is a regular file,
\* "" when every name before the last is a directory
walk_errno(f, p) ==
    LET bad == {k \in 1..(Len(p) - 1) : ~IsDir(f, SubSeq(p, 1, k))}
        first == CHOOSE k \in bad : \A j \in bad : k <= j
    IN  IF bad = {} THEN ""
        ELSE IF SubSeq(p, 1, first) \in DOMAIN f THEN "ENOTDIR" ELSE "ENOENT"
\* the error of os.listdir(p), "" when it returns
listdir_errno(f, p) ==
    IF walk_errno(f, p) # "" THEN walk_errno(f, p)
    ELSE IF ~Exists(f, p) THEN "ENOENT"
    ELSE IF ~IsDir(f, p) THEN "ENOTDIR" ELSE ""
\* the error of os.stat(p), "" when it returns
stat_errno(f, p) ==
    IF walk_errno(f, p) # "" THEN walk_errno(f, p)
    ELSE IF ~Exists(f, p) THEN "ENOENT" ELSE ""
\* the error of os.rmdir(p), "" when it removes the directory
rmdir_errno(f, p) ==
    IF listdir_errno(f, p) # "" THEN listdir_errno(f, p)
    ELSE IF Children(f, p) # {} THEN "ENOTEMPTY" ELSE ""
\* the error of os.mkdir(p), "" when it makes the directory
mkdir_errno(f, p) ==
    IF walk_errno(f, p) # "" THEN walk_errno(f, p)
    ELSE IF Exists(f, p) THEN "EEXIST" ELSE ""
\* the error of open(p, "wb"), "" when the file is opened
open_wb_errno(f, p) ==
    IF walk_errno(f, p) # "" THEN walk_errno(f, p)
    ELSE IF IsDir(f, p) THEN "EISDIR" ELSE ""
\* the OSError the interpreter raises for errno and the file name given
OSError(errno, filename) ==
    LET type == CASE errno = "ENOENT" -> "FileNotFoundError"
                  [] errno = "EEXIST" -> "FileExistsError"
                  [] errno = "ENOTDIR" -> "NotADirectoryError"
                  [] errno = "EISDIR" -> "IsADirectoryError"
                  [] errno = "ENOTEMPTY" -> "OSError"
        text == CASE errno = "ENOENT" -> "[Errno 2] No such file or directory"
                  [] errno = "EEXIST" -> "[Errno 17] File exists"
                  [] errno = "ENOTDIR" -> "[Errno 20] Not a directory"
                  [] errno = "EISDIR" -> "[Errno 21] Is a directory"
                  [] errno = "ENOTEMPTY" -> "[Errno 39] Directory not empty"
    IN  [type |-> type, msg |-> text \o ": '" \o filename \o "'"]
\* os.mkdir(p) inside "try: ... except OSError: pass": nothing is made when
\* os.mkdir raises
FsMkdir(f, p) == IF mkdir_errno(f, p) = "" THEN (p :> DirEntry) @@ f ELSE f

\* OverTheAirUpdate._is_file: the test of the mode os.stat(path) returns
is_file(f, p) == p # << >> /\ f[p].kind = "file"

\* OverTheAirUpdate._save_data_to_file: open(filepath, "wb") and write; the
\* OSError of open leaves the call and nothing is written
save_data_to_file(f, data, filepath) ==
    IF open_wb_errno(f, filepath) = ""
    THEN [fs |-> (filepath :> FileEntry(data)) @@ f, errno |-> ""]
    ELSE [fs |-> f, errno |-> open_wb_errno(f, filepath)]

RECURSIVE MkdirPrefixes(_, _, _)
MkdirPrefixes(f, parts, n) ==
    IF n >= Len(parts) THEN f
    ELSE MkdirPrefixes(FsMkdir(f, SubSeq(parts, 1, n)), parts, n + 1)

\* OverTheAirUpdate._create_leaf_directories_for_file: os.mkdir of every
\* proper prefix of the path; the OSError of os.mkdir (the directory
\* exists, or it cannot be made below a regular file) is swallowed
create_leaf_directories_for_file(f, parts) == MkdirPrefixes(f, parts, 1)

\* OverTheAirUpdate._create_folder_if_not_exists: os.mkdir(folder) when
\* os.listdir(folder) raises; the OSError of os.mkdir leaves the call
create_folder_if_not_exists(f, folder) ==
    IF listdir_errno(f, folder) = "" THEN [fs |-> f, errno |-> ""]
    ELSE [fs |-> FsMkdir(f, folder), errno |-> mkdir_errno(f, folder)]

\* the file names the code builds for the entry p: f"{directory}/{item}"
\* below the directory ".", and the path below the staging directory
LivePathName(p) == IF p = << >> THEN "." ELSE "./" \o Join(p, "/")
StagedPathName(p) == Join(p, "/")

\* the entries of f outside the staging directory: the live firmware tree
LiveTree(f) ==
    [p \in {q \in DOMAIN f : ~IsPrefix(StagingPath, q)} |-> f[p]]
\* the entries of f strictly inside the staging directory
StagedEntries(f) == {q \in DOMAIN f : IsPrefix(StagingPath, q) /\ q # StagingPath}

\* ------------------------------------------------------------- exceptions
NoError == [type |-> "None", msg |-> ""]
Error(type, msg) == [type |-> type, msg |-> msg]
\* a hierarchy in which the helpers' ConnectionError is an update error too
OverTheAirUpdateErrorsAndConnectionError ==
    {"HashMismatchError", "InvalidGithubRepoUrlError", "EmptyGithubRepoError",
     "ConnectionError"}
\* the subclasses of OverTheAirUpdateError; ConnectionError is the builtin
OverTheAirUpdateErrors ==
    {"HashMismatchError", "InvalidGithubRepoUrlError", "EmptyGithubRepoError"}
IsOverTheAirUpdateError(e) == e.type \in OverTheAirUpdateErrors

\* ------------------------------------------------------------ ThingsBoard
\* ThingsBoard.__init__ with the settings url, port and device token
tb_api_url == "https://tb" \o ":" \o "443" \o "/api/v1/" \o "DEVTOKEN"
tb_api_attributes_url == tb_api_url \o "/attributes"
tb_api_telemetry_url == tb_api_url \o "/telemetry"
generate_attribute_url(key_type) ==
    tb_api_attributes_url \o "?" \o key_type \o "=" \o Join(ATTRIBUTE_KEYS, ",")
tb_api_attributes_shared_keys_url == generate_attribute_url("sharedKeys")
tb_api_attributes_client_keys_url == generate_attribute_url("clientKeys")

\* a check that is content with any one of the keys (any instead of all)
remote_firmware_exists_any(remote_fw_info) ==
    \E n \in 1..Len(ATTRIBUTE_KEYS) : Get(remote_fw_info, ATTRIBUTE_KEYS[n]) # NoneV

\* ThingsBoard._remote_firmware_exists
remote_firmware_exists(remote_fw_info) ==
    \A n \in 1..Len(ATTRIBUTE_KEYS) : Get(remote_fw_info, ATTRIBUTE_KEYS[n]) # NoneV

\* the assignment of line 161: client_fw_info[FW_VERSION_ATTR] = str(...)
normalized_client_fw_info(client_fw_info) ==
    (FW_VERSION_ATTR :> PyStr(GetDefault(client_fw_info, FW_VERSION_ATTR, StrV(""))))
        @@ client_fw_info

\* ThingsBoard._check_firmware_info_differences
check_firmware_info_differences(remote_fw_info, client_fw_info) ==
    LET client == normalized_client_fw_info(client_fw_info)
    IN  \/ Get(remote_fw_info, FW_TITLE_ATTR) # Get(client, FW_TITLE_ATTR)
        \/ Get(remote_fw_info, FW_VERSION_ATTR) # Get(client, FW_VERSION_ATTR)

\* the value ThingsBoard.is_new_firmware_available returns
is_new_firmware_available(remote_fw_info, client_fw_info) ==
    /\ remote_firmware_exists(remote_fw_info)
    /\ check_firmware_info_differences(remote_fw_info, client_fw_info)

\* the body ThingsBoard._notify_firmware_update_status posts
status_telemetry(firmware_info, fw_status) ==
    ("current_" \o FW_TITLE_ATTR :> Get(firmware_info, FW_TITLE_ATTR))
    @@ ("current_" \o FW_VERSION_ATTR :> Get(firmware_info, FW_VERSION_ATTR))
    @@ (FW_STATE_ATTR :> StrV(fw_status))

\* the body ThingsBoard._notify_error posts
error_telemetry(error) ==
    (FW_STATE_ATTR :> StrV(FW_UPDATE_FAILED)) @@ (FW_ERROR_ATTR :> StrV(error.msg))

\* ----------------------------------------------------------------- Github
github_api_url(owner, repo_name) ==
    "https://api.github.com/repos/" \o owner \o "/" \o repo_name
        \o "/git/trees/main?recursive=1"
github_raw_url(owner, repo_name) ==
    "https://raw.githubusercontent.com/" \o owner \o "/" \o repo_name \o "/main"

\* the text of a sequence of characters
Str(chars) == Join(chars, "")

\* the words of the repository URLs of the inputs, as their characters
Chars_http == <<"h", "t", "t", "p", ":">>
Chars_https == <<"h", "t", "t", "p", "s", ":">>
Chars_github == <<"g", "i", "t", "h", "u", "b">>
Chars_gitlab == <<"g", "i", "t", "l", "a", "b">>
Chars_com == <<"c", "o", "m">>
Chars_owner == <<"o", "w", "n", "e", "r">>
Chars_repo == <<"r", "e", "p", "o">>
Chars_gone == <<"g", "o", "n", "e">>
Chars_tok == <<"t", "o", "k">>

\* the repository URLs of the inputs, split at "/": a URL is the sequence
\* of its segments and a segment is the sequence of its characters
UrlPlain == <<Chars_https, << >>, Chars_github \o <<".">> \o Chars_com,
              Chars_owner, Chars_repo>>
UrlUniverse ==
    { UrlPlain,
      UrlPlain \o <<Chars_tok>>,
      UrlPlain \o << << >> >>,
      UrlPlain \o <<Chars_tok, << >> >>,
      UrlPlain \o <<Chars_tok, <<"x">> >>,
      UrlPlain \o <<Chars_tok, <<"\n">> >>,
      <<Chars_http, << >>, Chars_github \o <<".">> \o Chars_com,
        Chars_owner, Chars_gone>>,
      <<Chars_https, << >>, Chars_gitlab \o <<".">> \o Chars_com,
        Chars_owner, Chars_repo>>,
      <<Chars_https, << >>, Chars_github \o <<".">> \o Chars_com, Chars_owner>>,
      <<Chars_https, << >>, Chars_github \o <<"X">> \o Chars_com,
        Chars_owner, Chars_repo>>,
      <<Chars_https, << >>, Chars_github \o <<"\n">> \o Chars_com,
        Chars_owner, Chars_repo>>,
      <<Chars_https, << >>, Chars_github, Chars_com, Chars_owner, Chars_repo,
        Chars_tok>>,
      << << >> >> }
UrlString(segs) == Join([n \in DOMAIN segs |-> Str(segs[n])], "/")
\* repo_url.split("/")
UrlSplit(repo_url) == CHOOSE segs \in UrlUniverse : UrlString(segs) = repo_url

\* the segment where the match of the sub-pattern github.com ends, "."
\* matching any character but a newline: 3 when it matched a character
\* inside the third segment, 4 when it matched the "/" between the segments
\* "github" and "com", 0 when the sub-pattern does not match
github_host_end(segs) ==
    IF /\ Len(segs) >= 3
       /\ Len(segs[3]) = 10
       /\ SubSeq(segs[3], 1, 6) = Chars_github
       /\ segs[3][7] # "\n"
       /\ SubSeq(segs[3], 8, 10) = Chars_com
    THEN 3
    ELSE IF Len(segs) >= 4 /\ segs[3] = Chars_github /\ segs[4] = Chars_com
    THEN 4
    ELSE 0

\* Github._is_github_repo_url_valid: re.match of
\*   https?://github.com/([^/]+)/([^/]+)(?:/([^/]+))?/?$
\* on the segments of the URL; "$" matches at the end of the URL and
\* before a newline that ends it
is_github_repo_url_valid(segs) ==
    LET h == github_host_end(segs)
    IN  /\ h # 0
        /\ Len(segs) \in (h + 2)..(h + 4)
        /\ segs[1] \in {Chars_http, Chars_https}
        /\ segs[2] = << >>
        /\ segs[h + 1] # << >>
        /\ segs[h + 2] # << >>
        /\ Len(segs) = h + 4 =>
              (segs[h + 3] # << >> /\ segs[h + 4] \in {<< >>, <<"\n">>})

\* group 3 of the match, None when the group did not take part or is empty
url_access_token(segs) ==
    LET h == github_host_end(segs)
    IN  IF h # 0 /\ Len(segs) >= h + 3 /\ segs[h + 3] # << >>
        THEN StrV(Str(segs[h + 3])) ELSE NoneV

\* Github._extract_github_repo_info_from_url: the dictionary returned, or
\* the InvalidGithubRepoUrlError raised
extract_github_repo_info_from_url(repo_url) ==
    LET segs == UrlSplit(repo_url)
    IN  IF is_github_repo_url_valid(segs)
        THEN [error |-> NoError,
              username |-> Str(segs[github_host_end(segs) + 1]),
              repo_name |-> Str(segs[github_host_end(segs) + 2]),
              access_token |-> url_access_token(segs)]
        ELSE [error |-> Error("InvalidGithubRepoUrlError",
                              "GitHub repository URL is not valid: " \o repo_url),
              username |-> "", repo_name |-> "", access_token |-> NoneV]

\* Github.create_sha1_git_hash: the SHA1 digest of the header "blob <len>",
\* a NUL byte and the data; the digest is represented by what is hashed
create_sha1_git_hash(data) == "sha1:blob " \o DecStr(Len(data)) \o "\\0" \o data

\* Github._get_authentification_header_with_access_token
get_authentification_header_with_access_token(access_token) ==
    IF access_token # NoneV
    THEN ("Authorization" :> ("token " \o access_token.s))
    ELSE [k \in {} |-> ""]

\* Github._get_repo_tree: response_json.get("tree", [])
get_repo_tree(response_json) ==
    IF "tree" \in DOMAIN response_json THEN response_json["tree"] ELSE << >>

\* Github._get_file_information_from_repo: the (path, sha) of every blob
get_file_information_from_repo(response_json) ==
    LET tree == get_repo_tree(response_json)
        IsBlob(item) == item.type = "blob"
        blobs == SelectSeq(tree, IsBlob)
    IN  [n \in 1..Len(blobs) |-> [path |-> blobs[n].path, sha |-> blobs[n].sha]]

\* ------------------------------------------------------------------ state
VARIABLES
    fs,                     \* the device's filesystem below the working directory
    shared,                 \* backend: the shared (desired) attributes
    client,                 \* backend: the client (current) attributes
    repo,                   \* GitHub: the tree and the raw files of owner/repo
    netlog,                 \* the requests the servers received, in order
    pc,                     \* the statement the program is at
    polls,                  \* iterations of the loop of main() begun
    retry,                  \* the loop variable of the request helper in progress
    failBudget,             \* transient failures the environment may still inject
    client_fw_info,         \* is_new_firmware_available: local
    remote_fw_info,         \* is_new_firmware_available: local
    available,              \* what the last is_new_firmware_available returned
    firmware_info,          \* download_firmware_files: local
    current_firmware_info,  \* download_firmware_files: local
    github_access_token,    \* Github._github_access_token
    github_urls,            \* download_files_from_repo: github_api_url, github_raw_url
    files,                  \* _download_repo_files: the (path, sha) still to yield
    yielded,                \* _download_firmware: the locals file_path,
                            \* raw_file_data and file_hash of the loop
    resident,               \* the files whose bytes were referenced when the
                            \* last response content was created (line 268)
    e,                      \* the exception the except clause caught
    raised,                 \* how the call in progress ended: the exception
                            \* leaving it, or Returned
    wstack,                 \* _remove_directory_contents_recursively: call stack
    wkeep,                  \* its arguments keep_files and keep_folders
    wret,                   \* the statement after the outermost call returns
    mstack,                 \* _move_folder_contents: call stack
    began,                  \* when the attempt began (before the first one,
                            \* when the program started): the live firmware
                            \* tree and the number of requests the servers
                            \* had received
    publishes,              \* backend: descriptors published since the start
    firmware_repo_url       \* what the last get_firmware_repo_url returned

vars == <<fs, shared, client, repo, netlog, pc, polls, retry, failBudget,
          client_fw_info, remote_fw_info, available, firmware_info,
          current_firmware_info, github_access_token, github_urls, files,
          yielded, resident, e, raised, wstack, wkeep, wret, mstack, began, publishes,
          firmware_repo_url>>

backend == <<shared, client, repo, publishes>>
download_locals == <<files, yielded, resident>>

\* the loop of _download_firmware has bound no file
\* no call of get_firmware_repo_url has returned
Unset == [t |-> "unset", i |-> 0, s |-> ""]
NoFile == [file_path |-> "", raw_file_data |-> "", file_hash |-> ""]
isnew_locals == <<client_fw_info, remote_fw_info, available>>
wipe_vars == <<wstack, wkeep, wret>>

\* -------------------------------------------------------------- requests
NoHeaders == [k \in {} |-> ""]
Request(helper, method, url, headers, json) ==
    [helper |-> helper, method |-> method, url |-> url,
     headers |-> headers, json |-> json]
TbGet(url) == Request("ThingsBoard._get_request", "GET", url, NoHeaders, EmptyDict)
TbPost(url, json) == Request("ThingsBoard._post_request", "POST", url, NoHeaders, json)
GhGet(url, headers) == Request("Github._get_request", "GET", url, headers, EmptyDict)

IsNewSites == {"isnew_get_client", "isnew_get_shared"}
NotifySites == {"notify_downloading", "notify_verified", "notify_downloaded",
                "notify_updating", "notify_updated"}
TrySites == {"dl_get_shared", "dl_get_client", "gh_tree", "gh_file", "post_attrs"}
                \cup NotifySites
\* the request of get_firmware_repo_url, a public method main() never calls
RepoUrlSites == {"repo_url_get_shared"}
RequestSites == IsNewSites \cup TrySites \cup {"notify_error"} \cup RepoUrlSites

\* a loop over the checkpoints that reports DOWNLOADED before VERIFIED
NotifyStatusDownloadedFirst ==
    [notify_downloading |-> FW_UPDATE_DOWNLOADING,
     notify_verified |-> FW_UPDATE_DOWNLOADED,
     notify_downloaded |-> FW_UPDATE_VERIFIED,
     notify_updating |-> FW_UPDATE_UPDATING,
     notify_updated |-> FW_UPDATE_UPDATED]

\* the fw_status each call of _notify_firmware_update_status passes
NotifyStatus ==
    [notify_downloading |-> FW_UPDATE_DOWNLOADING,
     notify_verified |-> FW_UPDATE_VERIFIED,
     notify_downloaded |-> FW_UPDATE_DOWNLOADED,
     notify_updating |-> FW_UPDATE_UPDATING,
     notify_updated |-> FW_UPDATE_UPDATED]

\* the request the helper in progress was called with
CurrentRequest ==
    CASE pc \in {"isnew_get_client", "dl_get_client"} ->
            TbGet(tb_api_attributes_client_keys_url)
      [] pc \in {"isnew_get_shared", "dl_get_shared"} \cup RepoUrlSites ->
            TbGet(tb_api_attributes_shared_keys_url)
      [] pc \in NotifySites ->
            TbPost(tb_api_telemetry_url,
                   status_telemetry(current_firmware_info, NotifyStatus[pc]))
      [] pc = "notify_error" ->
            TbPost(tb_api_telemetry_url, error_telemetry(e))
      [] pc = "post_attrs" ->
            TbPost(tb_api_attributes_url, firmware_info)
      [] pc = "gh_tree" ->
            GhGet(github_urls.api,
                  get_authentification_header_with_access_token(github_access_token))
      [] pc = "gh_file" ->
            GhGet(github_urls.raw \o "/" \o files[1].path,
                  get_authentification_header_with_access_token(github_access_token))

\* ---------------------------------------------------------------- servers
\* the backend's answer to GET attributes?clientKeys=... / ?sharedKeys=...
TbAttributesResponse(url) ==
    IF url = tb_api_attributes_client_keys_url
    THEN (IF DOMAIN client = {} THEN [k \in {} |-> EmptyDict] ELSE ("client" :> client))
    ELSE (IF DOMAIN shared = {} THEN [k \in {} |-> EmptyDict] ELSE ("shared" :> shared))

\* ThingsBoard._get_current_firmware_info_from_client_attributes and
\* _get_remote_firmware_info_from_shared_attributes: json_response.get(key, {})
attributes_of(json_response, key) ==
    IF key \in DOMAIN json_response THEN json_response[key] ELSE EmptyDict

\* GitHub hosts one repository, owner/repo; any other tree URL is answered
\* with a JSON object that has no key "tree"
GithubTreeResponse(url) ==
    IF url = github_api_url("owner", "repo")
    THEN ("tree" :> repo.tree)
    ELSE [k \in {} |-> << >>]

\* the content GitHub serves at a raw file URL of owner/repo
GithubRawContent(url) ==
    LET path == CHOOSE q \in DOMAIN repo.raw :
                    github_raw_url("owner", "repo") \o "/" \o q = url
    IN  repo.raw[path]

\* the file paths the listings of the inputs are made of, split at "/"
ListedPaths == {<<"main.py">>, <<"code.py">>, <<"pkg", "c.py">>}
\* the file paths that meet an entry of another kind in the live tree: a
\* file named as the kept directory lib, and a file in a directory named
\* as the kept file main.py
ClashingPaths == {<<"lib">>, <<"main.py", "c.py">>}
\* the file paths a repository of the inputs lists
RepoPaths == ListedPaths \cup ClashingPaths
\* destination_path.split("/")
PathSplit(destination_path) ==
    CHOOSE parts \in {StagingPath \o q : q \in RepoPaths} :
        Join(parts, "/") = destination_path

\* ---------------------------------------------------- the request helpers
\* a test that is off by one: a fourth attempt follows the third failure
retry_allowed_inclusive(n, retries) == n <= retries

\* ThingsBoard._get_request, ThingsBoard._post_request, Github._get_request:
\* the test "retry < retries" after an attempt raised RuntimeError
retry_allowed(n, retries) == n < retries

connection_error(url) ==
    Error("ConnectionError",
          "Failed to establish connection to " \o url \o " after "
              \o DecStr(Retries) \o " retries.")

\* an exception raised inside download_firmware_files: the except clause
\* catches an OverTheAirUpdateError raised in the try block; anything else,
\* and anything raised in the except clause, leaves through the finally
RaiseInDownload(err) ==
    IF pc # "notify_error" /\ IsOverTheAirUpdateError(err)
    THEN pc' = "notify_error" /\ e' = err /\ raised' = raised
    ELSE pc' = "finally" /\ e' = e /\ raised' = err

\* an attempt raises RuntimeError and the helper sleeps and tries again
RequestRetry ==
    /\ pc \in RequestSites
    /\ failBudget > 0
    /\ retry_allowed(retry, Retries)
    /\ retry' = retry + 1
    /\ failBudget' = failBudget - 1
    /\ UNCHANGED <<fs, backend, netlog, pc, polls, isnew_locals, firmware_info,
                   current_firmware_info, github_access_token, firmware_repo_url, github_urls,
                   download_locals, e, raised, wipe_vars, mstack, began>>

\* the last attempt raises RuntimeError and the helper raises ConnectionError
RequestExhausted ==
    /\ pc \in RequestSites
    /\ failBudget > 0
    /\ ~retry_allowed(retry, Retries)
    /\ retry' = 1
    /\ failBudget' = failBudget - 1
    /\ IF pc \in IsNewSites
       THEN /\ pc' = "poll"
            /\ available' = "ConnectionError"
            /\ UNCHANGED <<e, raised>>
       ELSE IF pc \in RepoUrlSites
       THEN /\ pc' = "repo_url_return"
            /\ raised' = connection_error(CurrentRequest.url)
            /\ UNCHANGED <<e, available>>
       ELSE /\ RaiseInDownload(connection_error(CurrentRequest.url))
            /\ UNCHANGED available
    /\ UNCHANGED <<fs, backend, netlog, polls, client_fw_info, remote_fw_info,
                   firmware_info, current_firmware_info, github_access_token, firmware_repo_url,
                   github_urls, download_locals, wipe_vars, mstack, began>>

\* an attempt succeeds: the server receives the request and the helper returns
Delivered ==
    /\ netlog' = Append(netlog, CurrentRequest)
    /\ retry' = 1
    /\ UNCHANGED failBudget

\* ------------------------------------------------------------------ main
\* main(): the loop begins an iteration and calls is_new_firmware_available
Poll ==
    /\ pc = "poll"
    /\ polls < MaxPolls
    /\ polls' = polls + 1
    /\ pc' = "isnew_get_client"
    /\ available' = "unset"
    /\ UNCHANGED <<fs, backend, netlog, retry, failBudget, client_fw_info,
                   remote_fw_info, firmware_info, current_firmware_info,
                   github_access_token, firmware_repo_url, github_urls, download_locals, e, raised,
                   wipe_vars, mstack, began>>

\* is_new_firmware_available: the client attributes arrive
IsNewGetClient ==
    /\ pc = "isnew_get_client"
    /\ Delivered
    /\ client_fw_info' =
          attributes_of(TbAttributesResponse(CurrentRequest.url), "client")
    /\ pc' = "isnew_get_shared"
    /\ UNCHANGED <<fs, backend, polls, remote_fw_info, available, firmware_info,
                   current_firmware_info, github_access_token, firmware_repo_url, github_urls,
                   download_locals, e, raised, wipe_vars, mstack, began>>

\* is_new_firmware_available: the shared attributes arrive, the function
\* returns, and main() calls download_firmware_files when it returned True
IsNewGetShared ==
    /\ pc = "isnew_get_shared"
    /\ Delivered
    /\ LET info == attributes_of(TbAttributesResponse(CurrentRequest.url), "shared")
           result == is_new_firmware_available(info, client_fw_info)
       IN  /\ remote_fw_info' = info
           /\ client_fw_info' =
                 IF remote_firmware_exists(info)
                 THEN normalized_client_fw_info(client_fw_info)
                 ELSE client_fw_info
           /\ available' = IF result THEN "True" ELSE "False"
           /\ pc' = IF result THEN "dl_get_shared" ELSE "poll"
           /\ began' = IF result
                       THEN [live |-> LiveTree(fs), sent |-> Len(netlog')]
                       ELSE began
           /\ e' = IF result THEN NoError ELSE e
           /\ raised' = IF result THEN NoError ELSE raised
    /\ UNCHANGED <<fs, backend, polls, firmware_info, current_firmware_info,
                   github_access_token, firmware_repo_url, github_urls, download_locals, wipe_vars, mstack>>

\* ------------------------------------------- the recursive wipe of a tree
\* the arguments keep_files and keep_folders of the call in the finally clause
CleanupKeepFiles == {}

\* a cleanup that spares the package directories
CleanupKeepsPackages == {"pkg"}

CleanupKeepFolders == {}

\* OverTheAirUpdate._remove_directory_contents_recursively is called:
\* os.listdir raises OSError for a directory that does not exist and for a
\* regular file, which the call swallows
BeginWipe(dir, kf, kd, ret) ==
    /\ wkeep' = [files |-> kf, folders |-> kd]
    /\ wret' = ret
    /\ IF listdir_errno(fs, dir) = ""
       THEN /\ wstack' = <<[dir |-> dir, todo |-> listdir(fs, dir)]>>
            /\ pc' = "wipe"
       ELSE /\ wstack' = << >>
            /\ pc' = ret

\* one iteration of the loop over os.listdir(directory) in the innermost
\* call: a file is removed unless its name is in keep_files, a directory is
\* entered unless its name is in keep_folders; the OSError of os.stat for
\* an item that is gone is swallowed by the call, whose loop is over
WipeItem ==
    /\ pc = "wipe"
    /\ wstack # << >>
    /\ LET n == Len(wstack)
           top == wstack[n]
       IN  \E item \in top.todo :
             LET item_path == Append(top.dir, item)
                 rest == [wstack EXCEPT ![n].todo = @ \ {item}]
             IN  IF stat_errno(fs, item_path) # ""
                 THEN /\ fs' = fs
                      /\ wstack' = [wstack EXCEPT ![n].todo = {}]
                 ELSE IF is_file(fs, item_path)
                 THEN /\ fs' = IF item \notin wkeep.files
                                THEN FsRemove(fs, item_path) ELSE fs
                      /\ wstack' = rest
                 ELSE /\ fs' = fs
                      /\ wstack' =
                            IF item \notin wkeep.folders
                            THEN Append(rest, [dir |-> item_path,
                                               todo |-> listdir(fs, item_path)])
                            ELSE rest
    /\ UNCHANGED <<backend, netlog, pc, polls, retry, failBudget, isnew_locals,
                   firmware_info, current_firmware_info, github_access_token, firmware_repo_url,
                   github_urls, download_locals, e, raised, wkeep, wret, mstack, began>>

\* the loop of the innermost call is over and the call returns; the caller
\* then does os.rmdir(item_path), which raises OSError when the directory
\* is not empty: the caller's except clause swallows it and the caller's
\* loop is over too
WipeReturn ==
    /\ pc = "wipe"
    /\ wstack # << >>
    /\ LET n == Len(wstack)
           top == wstack[n]
           callers == SubSeq(wstack, 1, n - 1)
       IN  /\ top.todo = {}
           /\ IF n = 1
              THEN /\ wstack' = << >>
                   /\ pc' = wret
                   /\ fs' = fs
              ELSE /\ pc' = pc
                   /\ IF rmdir_errno(fs, top.dir) = ""
                      THEN /\ fs' = FsRemove(fs, top.dir)
                           /\ wstack' = callers
                      ELSE /\ fs' = fs
                           /\ wstack' = [callers EXCEPT ![n - 1].todo = {}]
    /\ UNCHANGED <<backend, netlog, polls, retry, failBudget, isnew_locals,
                   firmware_info, current_firmware_info, github_access_token, firmware_repo_url,
                   github_urls, download_locals, e, raised, wkeep, wret, mstack, began>>

\* --------------------------------------------------- download_firmware_files
\* the shared attributes arrive (line 408)
DlGetShared ==
    /\ pc = "dl_get_shared"
    /\ Delivered
    /\ firmware_info' =
          attributes_of(TbAttributesResponse(CurrentRequest.url), "shared")
    /\ pc' = "dl_get_client"
    /\ UNCHANGED <<fs, backend, polls, isnew_locals, current_firmware_info,
                   github_access_token, firmware_repo_url, github_urls, download_locals, e, raised,
                   wipe_vars, mstack, began>>

\* the client attributes arrive (line 411)
DlGetClient ==
    /\ pc = "dl_get_client"
    /\ Delivered
    /\ current_firmware_info' =
          attributes_of(TbAttributesResponse(CurrentRequest.url), "client")
    /\ pc' = "notify_downloading"
    /\ UNCHANGED <<fs, backend, polls, isnew_locals, firmware_info,
                   github_access_token, firmware_repo_url, github_urls, download_locals, e, raised,
                   wipe_vars, mstack, began>>

\* a pipeline that restarts the device once the download is reported
AfterNotifyRestartsEarly ==
    [notify_downloading |-> "download_files_from_repo",
     notify_verified |-> "notify_downloaded",
     notify_downloaded |-> "reload",
     notify_updated |-> "reload"]

\* the statement after each status notification but UPDATING
AfterNotify ==
    [notify_downloading |-> "download_files_from_repo",
     notify_verified |-> "notify_downloaded",
     notify_downloaded |-> "notify_updating",
     notify_updated |-> "reload"]

\* _notify_firmware_update_status: the telemetry point is posted
\* (DOWNLOADING, VERIFIED, DOWNLOADED, UPDATED)
NotifyStatusSent ==
    /\ pc \in DOMAIN AfterNotify
    /\ Delivered
    /\ pc' = AfterNotify[pc]
    /\ UNCHANGED <<fs, backend, polls, isnew_locals, firmware_info,
                   current_firmware_info, github_access_token, firmware_repo_url, github_urls,
                   download_locals, e, raised, wipe_vars, mstack, began>>

\* Github.download_files_from_repo up to its first request: the URL is
\* parsed and the API URLs are built; the access token of the URL is not
\* stored in _github_access_token.  re.match raises TypeError for a value
\* that is not a string (a null or a number in the attribute fw_url), with
\* the text of the interpreter the library runs on here (CPython 3.11)
DownloadFilesFromRepo ==
    /\ pc = "download_files_from_repo"
    /\ LET firmware_url == GetDefault(firmware_info, FW_URL_ATTR, StrV(""))
           repo_info == extract_github_repo_info_from_url(firmware_url.s)
       IN  IF firmware_url.t # "str"
           THEN /\ RaiseInDownload(Error("TypeError",
                        "expected string or bytes-like object, got '"
                            \o PyTypeName(firmware_url) \o "'"))
                /\ UNCHANGED github_urls
           ELSE IF repo_info.error # NoError
           THEN /\ RaiseInDownload(repo_info.error)
                /\ UNCHANGED github_urls
           ELSE /\ github_urls' =
                      [api |-> github_api_url(repo_info.username, repo_info.repo_name),
                       raw |-> github_raw_url(repo_info.username, repo_info.repo_name)]
                /\ pc' = "gh_tree"
                /\ UNCHANGED <<e, raised>>
    /\ UNCHANGED <<fs, backend, netlog, polls, retry, failBudget, isnew_locals,
                   firmware_info, current_firmware_info, github_access_token, firmware_repo_url,
                   download_locals, wipe_vars, mstack, began>>

\* a test that takes every listing for a listing with files
listing_never_empty(repo_file_info) == FALSE

\* Github.download_files_from_repo: the test "not repo_file_info"
listing_is_empty(repo_file_info) == repo_file_info = << >>

\* the tree listing arrives: an empty list of blobs raises
\* EmptyGithubRepoError, otherwise the generator is created and the loop of
\* _download_firmware asks it for the first file; no file is bound yet
GhTree ==
    /\ pc = "gh_tree"
    /\ Delivered
    /\ LET repo_file_info ==
               get_file_information_from_repo(GithubTreeResponse(CurrentRequest.url))
       IN  IF listing_is_empty(repo_file_info)
           THEN /\ RaiseInDownload(Error("EmptyGithubRepoError",
                        "Repository is empty. Does 'main' branch exist?"))
                /\ UNCHANGED files
           ELSE /\ files' = repo_file_info
                /\ pc' = IF repo_file_info = << >> THEN "notify_verified" ELSE "gh_file"
                /\ UNCHANGED <<e, raised>>
    /\ yielded' = NoFile
    /\ resident' = {}
    /\ UNCHANGED <<fs, backend, polls, isnew_locals, firmware_info,
                   current_firmware_info, github_access_token, firmware_repo_url, github_urls,
                   wipe_vars, mstack, began>>

\* a comparison of the lengths of the two digests
hash_length_mismatch(created_hash, file_hash) == Len(created_hash) # Len(file_hash)

\* _download_firmware: the test "created_hash != file_hash"
hash_mismatch(created_hash, file_hash) == created_hash # file_hash

\* _download_firmware: the next file arrives, its hash is compared with the
\* listed one and the file is saved below the staging directory; the
\* OSError of a file that cannot be written there is caught by no except
\* clause.  The
\* response content is created (line 268) while git_raw_file_data and
\* raw_file_data still refer to the bytes of the file before: they are bound
\* to the new content only afterwards, and gc.collect() (line 397) runs
\* while they are bound
GhFile ==
    /\ pc = "gh_file"
    /\ Delivered
    /\ LET raw_file_data == GithubRawContent(CurrentRequest.url)
           file_hash == files[1].sha
           created_hash == create_sha1_git_hash(raw_file_data)
           destination_path ==
               PathSplit(temp_firmware_download_folder \o "/" \o files[1].path)
       IN  IF hash_mismatch(created_hash, file_hash)
           THEN /\ RaiseInDownload(Error("HashMismatchError",
                        "Hash value '" \o created_hash
                        \o "' does not match the expected hash value '"
                        \o file_hash \o "'."))
                /\ UNCHANGED <<fs, files>>
           ELSE LET saved == save_data_to_file(
                                create_leaf_directories_for_file(fs, destination_path),
                                raw_file_data, destination_path)
                IN  /\ fs' = saved.fs
                    /\ IF saved.errno # ""
                       THEN /\ RaiseInDownload(
                                   OSError(saved.errno, StagedPathName(destination_path)))
                            /\ files' = files
                       ELSE /\ files' = Tail(files)
                            /\ pc' = IF Tail(files) = << >>
                                     THEN "notify_verified" ELSE "gh_file"
                            /\ UNCHANGED <<e, raised>>
    /\ yielded' = [file_path |-> files[1].path,
                   raw_file_data |-> GithubRawContent(CurrentRequest.url),
                   file_hash |-> files[1].sha]
    /\ resident' = {files[1].path} \cup
           (IF yielded = NoFile THEN {} ELSE {yielded.file_path})
    /\ UNCHANGED <<backend, polls, isnew_locals, firmware_info,
                   current_firmware_info, github_access_token, firmware_repo_url, github_urls,
                   wipe_vars, mstack, began>>

\* UPDATING is posted and _update_firmware begins with the wipe of directory
NotifyUpdatingSent ==
    /\ pc = "notify_updating"
    /\ Delivered
    /\ BeginWipe(directory, keep_files, keep_folders, "move_folder_contents")
    /\ UNCHANGED <<fs, backend, polls, isnew_locals, firmware_info,
                   current_firmware_info, github_access_token, firmware_repo_url, github_urls,
                   download_locals, e, raised, mstack, began>>

\* ------------------------------------------------ the move of the staged tree
\* OverTheAirUpdate._move_folder_contents is called by _update_firmware:
\* the destination is made if it is not there and the source is listed;
\* the OSError of either is caught by no except clause
MoveBegin ==
    /\ pc = "move_folder_contents"
    /\ LET made == create_folder_if_not_exists(fs, directory)
           errno == IF made.errno # "" THEN made.errno
                    ELSE listdir_errno(made.fs, StagingPath)
       IN  /\ fs' = made.fs
           /\ IF errno = ""
              THEN /\ mstack' = <<[src |-> StagingPath, dst |-> directory,
                                   todo |-> listdir(made.fs, StagingPath)]>>
                   /\ pc' = "move"
                   /\ UNCHANGED <<e, raised>>
              ELSE /\ RaiseInDownload(
                          OSError(errno, IF made.errno # ""
                                         THEN LivePathName(directory)
                                         ELSE StagedPathName(StagingPath)))
                   /\ mstack' = mstack
    /\ UNCHANGED <<backend, netlog, polls, retry, failBudget, isnew_locals,
                   firmware_info, current_firmware_info, github_access_token, firmware_repo_url,
                   github_urls, download_locals, wipe_vars, began>>

\* one iteration of the loop over os.listdir(source_folder) in the innermost
\* call: a file is copied over the destination and removed from the source,
\* a directory is entered after the destination directory is created.  The
\* OSError of a destination that cannot be written (it is a directory) or
\* made (it is a regular file) is caught by no except clause: it ends
\* every call of _move_folder_contents and leaves the try block
MoveItem ==
    /\ pc = "move"
    /\ LET n == Len(mstack)
           top == mstack[n]
       IN  \E item \in top.todo :
             LET source_item == Append(top.src, item)
                 destination_item == Append(top.dst, item)
                 rest == [mstack EXCEPT ![n].todo = @ \ {item}]
                 done == IF is_file(fs, source_item)
                         THEN save_data_to_file(fs, fs[source_item].data,
                                                destination_item)
                         ELSE create_folder_if_not_exists(fs, destination_item)
             IN  IF stat_errno(fs, source_item) # ""
                 THEN /\ fs' = fs
                      /\ mstack' = << >>
                      /\ RaiseInDownload(
                             OSError(stat_errno(fs, source_item),
                                     StagedPathName(source_item)))
                 ELSE IF done.errno # ""
                 THEN /\ fs' = done.fs
                      /\ mstack' = << >>
                      /\ RaiseInDownload(
                             OSError(done.errno, LivePathName(destination_item)))
                 ELSE /\ IF is_file(fs, source_item)
                         THEN /\ fs' = FsRemove(done.fs, source_item)
                              /\ mstack' = rest
                         ELSE /\ fs' = done.fs
                              /\ mstack' = Append(rest,
                                    [src |-> source_item, dst |-> destination_item,
                                     todo |-> listdir(done.fs, source_item)])
                      /\ UNCHANGED <<pc, e, raised>>
    /\ UNCHANGED <<backend, netlog, polls, retry, failBudget, isnew_locals,
                   firmware_info, current_firmware_info, github_access_token, firmware_repo_url,
                   github_urls, download_locals, wipe_vars, began>>

\* the loop of the innermost call is over: os.rmdir(source_folder) and the
\* call returns; after the outermost call _update_firmware posts the
\* attributes.  The OSError of os.rmdir is caught by no except clause
MoveReturn ==
    /\ pc = "move"
    /\ LET n == Len(mstack)
           top == mstack[n]
       IN  /\ top.todo = {}
           /\ IF rmdir_errno(fs, top.src) = ""
              THEN /\ fs' = FsRemove(fs, top.src)
                   /\ mstack' = SubSeq(mstack, 1, n - 1)
                   /\ pc' = IF n = 1 THEN "post_attrs" ELSE pc
                   /\ UNCHANGED <<e, raised>>
              ELSE /\ fs' = fs
                   /\ mstack' = << >>
                   /\ RaiseInDownload(
                          OSError(rmdir_errno(fs, top.src), StagedPathName(top.src)))
    /\ UNCHANGED <<backend, netlog, polls, retry, failBudget, isnew_locals,
                   firmware_info, current_firmware_info, github_access_token, firmware_repo_url,
                   github_urls, download_locals, wipe_vars, began>>

\* update_firmware_infos_in_client_attributes: the backend stores the posted
\* attributes as client attributes
PostAttrs ==
    /\ pc = "post_attrs"
    /\ Delivered
    /\ client' = firmware_info @@ client
    /\ pc' = "notify_updated"
    /\ UNCHANGED <<fs, shared, repo, publishes, polls, isnew_locals, firmware_info,
                   current_firmware_info, github_access_token, firmware_repo_url, github_urls,
                   download_locals, e, raised, wipe_vars, mstack, began>>

\* download_firmware_files returned: every statement of the try block ran
Returned == [type |-> "Returned", msg |-> ""]
\* supervisor.reload() belongs to the platform, not to the library: it
\* interrupts the caller with ReloadException, or it returns and the
\* function ends normally (the reload, if any, takes place afterwards)
ReloadOutcomes == {Error("ReloadException", ""), Returned}

\* supervisor.reload() (line 429): either outcome leaves through the finally
Reload ==
    /\ pc = "reload"
    /\ raised' \in ReloadOutcomes
    /\ pc' = "finally"
    /\ e' = e
    /\ UNCHANGED <<fs, backend, netlog, polls, retry, failBudget, isnew_locals,
                   firmware_info, current_firmware_info, github_access_token, firmware_repo_url,
                   github_urls, download_locals, wipe_vars, mstack, began>>

\* the except clause: _notify_error has posted FAILED and the bare raise
\* re-raises the caught exception
NotifyErrorSent ==
    /\ pc = "notify_error"
    /\ Delivered
    /\ raised' = e
    /\ pc' = "finally"
    /\ UNCHANGED <<fs, backend, polls, isnew_locals, firmware_info,
                   current_firmware_info, github_access_token, firmware_repo_url, github_urls,
                   download_locals, e, wipe_vars, mstack, began>>

\* the finally clause: the staging directory is wiped
Finally ==
    /\ pc = "finally"
    /\ BeginWipe(StagingPath, CleanupKeepFiles, CleanupKeepFolders, "dl_return")
    /\ UNCHANGED <<fs, backend, netlog, polls, retry, failBudget, isnew_locals,
                   firmware_info, current_firmware_info, github_access_token, firmware_repo_url,
                   github_urls, download_locals, e, raised, mstack, began>>

\* download_firmware_files has ended: main() swallows ConnectionError and
\* OverTheAirUpdateError and loops, as it does when the call returns;
\* neither except clause catches ReloadException, which leaves main(), as
\* does any other exception
MainContinues ==
    /\ pc = "dl_return"
    /\ pc' = IF \/ raised.type = "ConnectionError"
                \/ raised = Returned
                \/ IsOverTheAirUpdateError(raised)
             THEN "poll"
             ELSE IF raised.type = "ReloadException" THEN "left" ELSE "crashed"
    /\ UNCHANGED <<fs, backend, netlog, polls, retry, failBudget, isnew_locals,
                   firmware_info, current_firmware_info, github_access_token, firmware_repo_url,
                   github_urls, download_locals, e, raised, wipe_vars, mstack, began>>

\* the platform, after the reload: ReloadException has left main() and the
\* program is run again from its first line, with a new OverTheAirUpdate;
\* the filesystem and the servers are what they were
Restart ==
    /\ pc = "left"
    /\ pc' = "poll"
    /\ client_fw_info' = EmptyDict
    /\ remote_fw_info' = EmptyDict
    /\ available' = "unset"
    /\ firmware_info' = EmptyDict
    /\ current_firmware_info' = EmptyDict
    /\ github_access_token' = NoneV
    /\ github_urls' = [api |-> "", raw |-> ""]
    /\ files' = << >>
    /\ yielded' = NoFile
    /\ resident' = {}
    /\ e' = NoError
    /\ raised' = NoError
    /\ firmware_repo_url' = Unset
    /\ began' = [live |-> LiveTree(fs), sent |-> Len(netlog)]
    /\ UNCHANGED <<fs, backend, netlog, polls, retry, failBudget, wipe_vars,
                   mstack>>

\* ------------------------------------------------------------------ inputs
\* the most files a repository of the inputs lists
MaxFiles == 2

\* the files a live firmware tree of the inputs is made of
LiveData ==
    (<<"main.py">> :> "M0") @@ (<<"code.py">> :> "C0") @@ (<<"lib", "x.py">> :> "L0")
    @@ (<<"pkg", "main.py">> :> "P0") @@ (<<"pkg", "b.py">> :> "B0")

\* the filesystem that holds the files S and the directories above them
MakeTree(S) ==
    LET dirs == {SubSeq(q, 1, n) : <<q, n>> \in
                    {<<q, n>> \in S \X (1..2) : n < Len(q)}}
    IN  [p \in S \cup dirs |-> IF p \in S THEN FileEntry(LiveData[p]) ELSE DirEntry]

\* the content of the new firmware's download_locals, and a content that is not it
NewData ==
    (<<"main.py">> :> "M1") @@ (<<"code.py">> :> "C1") @@ (<<"pkg", "c.py">> :> "PC1")
    @@ (<<"lib">> :> "LB1") @@ (<<"main.py", "c.py">> :> "MC1")
CorruptData == "??"

\* the listings: the sequences of at most MaxFiles different paths
Listings ==
    {l \in UNION {[1..n -> ListedPaths] : n \in 0..MaxFiles} :
        \A a, b \in DOMAIN l : a # b => l[a] # l[b]}

RECURSIVE TreeItems(_, _)
\* the "tree" of the listing answer: a blob for each file with the hash of
\* its content in the repository, after a tree item for its directory
TreeItems(l, n) ==
    IF n > Len(l) THEN << >>
    ELSE (IF Len(l[n]) > 1
          THEN <<[path |-> Join(SubSeq(l[n], 1, Len(l[n]) - 1), "/"),
                  type |-> "tree", sha |-> "sha1:tree"]>>
          ELSE << >>)
         \o <<[path |-> Join(l[n], "/"), type |-> "blob",
               sha |-> create_sha1_git_hash(NewData[l[n]])]>>
         \o TreeItems(l, n + 1)

\* the repository that lists l and serves a corrupt content for the files
\* at the positions bad
MakeRepo(l, bad) ==
    [tree |-> TreeItems(l, 1),
     raw |-> [q \in {Join(l[n], "/") : n \in DOMAIN l} |->
                LET n == CHOOSE m \in DOMAIN l : Join(l[m], "/") = q
                IN  IF n \in bad THEN CorruptData ELSE NewData[l[n]]]]

Repos == {MakeRepo(l, bad) : <<l, bad>> \in
             {<<l, bad>> \in Listings \X SUBSET (1..MaxFiles) : bad \subseteq DOMAIN l}}

Descriptor(title, version, url) ==
    (FW_TITLE_ATTR :> title) @@ (FW_VERSION_ATTR :> version) @@ (FW_URL_ATTR :> url)

\* the state after OverTheAirUpdate(...) has been constructed
Constructed ==
    /\ netlog = << >>
    /\ polls = 0
    /\ retry = 1
    /\ failBudget = MaxTransient
    /\ client_fw_info = EmptyDict
    /\ remote_fw_info = EmptyDict
    /\ available = "unset"
    /\ firmware_info = EmptyDict
    /\ current_firmware_info = EmptyDict
    /\ github_access_token = NoneV
    /\ github_urls = [api |-> "", raw |-> ""]
    /\ files = << >>
    /\ yielded = NoFile
    /\ resident = {}
    /\ e = NoError
    /\ raised = NoError
    /\ wstack = << >>
    /\ wkeep = [files |-> {}, folders |-> {}]
    /\ wret = "dl_return"
    /\ mstack = << >>
    /\ began = [live |-> LiveTree(fs), sent |-> 0]
    /\ publishes = 0
    /\ firmware_repo_url = Unset

\* main() has built the object and enters its loop
InitProgram ==
    /\ pc = "poll"
    /\ Constructed

\* a repository whose tree lists a directory and no file
DirectoryOnlyRepo ==
    [tree |-> <<[path |-> "pkg", type |-> "tree", sha |-> "sha1:tree"]>>,
     raw |-> [q \in {} |-> ""]]

\* the repositories every live tree of the inputs is updated from
SwapRepos ==
    { MakeRepo(<<<<"main.py">>>>, {}),
      MakeRepo(<<<<"code.py">>, <<"pkg", "c.py">>>>, {}),
      MakeRepo(<<<<"pkg", "c.py">>, <<"main.py">>>>, {}) }
\* the live trees every repository of the inputs is downloaded to
DownloadTrees ==
    { MakeTree({}), MakeTree({<<"main.py">>, <<"code.py">>, <<"pkg", "b.py">>}) }

\* the devices whose filesystem holds an entry of another kind where the
\* update writes: a regular file named as the staging directory, the kept
\* directory lib where the repository has a file lib, and the kept file
\* main.py where the repository has a directory main.py
ClashingInputs ==
    { [fs |-> (StagingPath :> FileEntry("T0")) @@ MakeTree({<<"main.py">>}),
       repo |-> MakeRepo(<<<<"code.py">>>>, {})],
      [fs |-> MakeTree({<<"lib", "x.py">>}),
       repo |-> MakeRepo(<<<<"lib">>>>, {})],
      [fs |-> MakeTree({<<"main.py">>}),
       repo |-> MakeRepo(<<<<"main.py", "c.py">>>>, {})] }

\* a published firmware: every live tree with a few good repositories,
\* every repository (good or with corrupt files) with a few live trees,
\* every repository URL with one tree and repository, and the devices
\* where the update meets an entry of another kind
Init ==
    /\ client = (FW_TITLE_ATTR :> StrV("app")) @@ (FW_VERSION_ATTR :> StrV("1"))
    /\ \/ /\ shared = Descriptor(StrV("app"), StrV("2"), StrV(UrlString(UrlPlain)))
          /\ \/ /\ fs \in {MakeTree(S) : S \in SUBSET DOMAIN LiveData}
                /\ repo \in SwapRepos
             \/ /\ fs \in DownloadTrees
                /\ repo \in Repos \cup {DirectoryOnlyRepo}
             \/ \E i \in ClashingInputs : fs = i.fs /\ repo = i.repo
       \/ /\ \E u \in UrlUniverse :
                shared = Descriptor(StrV("app"), StrV("2"), StrV(UrlString(u)))
          /\ fs = MakeTree({<<"main.py">>, <<"code.py">>})
          /\ repo = MakeRepo(<<<<"main.py">>, <<"pkg", "c.py">>>>, {})
    /\ InitProgram

Next ==
    \/ Poll
    \/ IsNewGetClient
    \/ IsNewGetShared
    \/ RequestRetry
    \/ RequestExhausted
    \/ DlGetShared
    \/ DlGetClient
    \/ NotifyStatusSent
    \/ DownloadFilesFromRepo
    \/ GhTree
    \/ GhFile
    \/ NotifyUpdatingSent
    \/ WipeItem
    \/ WipeReturn
    \/ MoveBegin
    \/ MoveItem
    \/ MoveReturn
    \/ PostAttrs
    \/ Reload
    \/ NotifyErrorSent
    \/ Finally
    \/ MainContinues
    \/ Restart

Spec == Init /\ [][Next]_vars

\* desired and current descriptors of every shape, one small tree and
\* repository: keys absent, null, string-typed and integer-typed versions
SharedInputs ==
    {[k \in K |-> D[k]] :
        <<K, D>> \in (SUBSET {FW_TITLE_ATTR, FW_VERSION_ATTR, FW_URL_ATTR})
            \X {Descriptor(t, v, StrV(UrlString(u))) :
                   <<t, v, u>> \in {StrV("app"), StrV("new")}
                       \X {StrV("1"), StrV("2"), IntV(2), NoneV}
                       \X {UrlPlain, SubSeq(UrlPlain, 1, 4)}}}
ClientInputs ==
    {[k \in K |-> D[k]] :
        <<K, D>> \in (SUBSET {FW_TITLE_ATTR, FW_VERSION_ATTR})
            \X {Descriptor(StrV("app"), v, NoneV) :
                   v \in {StrV("1"), StrV("2"), IntV(1), IntV(2)}}}

InitAttrs ==
    /\ shared \in SharedInputs
    /\ client \in ClientInputs
    /\ fs = MakeTree({<<"main.py">>, <<"code.py">>})
    /\ repo = MakeRepo(<<<<"code.py">>>>, {})
    /\ InitProgram

SpecAttrs == InitAttrs /\ [][Next]_vars

\* what the operator publishes while the device runs: the descriptor
\* without the key fw_url, the descriptor with a null fw_url, and the
\* descriptor of the firmware the device reports to run
PublishInputs ==
    { (FW_TITLE_ATTR :> StrV("app")) @@ (FW_VERSION_ATTR :> StrV("2")),
      Descriptor(StrV("app"), StrV("2"), NoneV),
      Descriptor(StrV("app"), StrV("1"), StrV(UrlString(UrlPlain))) }

\* the backend: the operator sets the shared attributes, at any moment
Publish ==
    /\ publishes < MaxPublishes
    /\ publishes' = publishes + 1
    /\ shared' \in PublishInputs \ {shared}
    /\ UNCHANGED <<fs, client, repo, netlog, pc, polls, retry, failBudget,
                   isnew_locals, firmware_info, current_firmware_info,
                   github_access_token, firmware_repo_url, github_urls, download_locals, e, raised,
                   wipe_vars, mstack, began>>

\* a published firmware with every repository URL, one tree and repository
InitPublish ==
    /\ client = (FW_TITLE_ATTR :> StrV("app")) @@ (FW_VERSION_ATTR :> StrV("1"))
    /\ \E u \in UrlUniverse :
          shared = Descriptor(StrV("app"), StrV("2"), StrV(UrlString(u)))
    /\ fs = MakeTree({<<"main.py">>, <<"code.py">>})
    /\ repo = MakeRepo(<<<<"main.py">>, <<"pkg", "c.py">>>>, {})
    /\ InitProgram

NextPublish == Next \/ Publish

\* the device runs while the operator publishes
SpecPublish == InitPublish /\ [][NextPublish]_vars

\* ThingsBoard.get_firmware_repo_url: firmware_info.get(FW_URL_ATTR, None)
get_firmware_repo_url(info) == GetDefault(info, FW_URL_ATTR, NoneV)

\* get_firmware_repo_url: the shared attributes arrive (line 144) and the
\* value of fw_url, or None, is returned (line 145)
GetFirmwareRepoUrl ==
    /\ pc = "repo_url_get_shared"
    /\ Delivered
    /\ firmware_repo_url' = get_firmware_repo_url(
          attributes_of(TbAttributesResponse(CurrentRequest.url), "shared"))
    /\ pc' = "repo_url_return"
    /\ UNCHANGED <<fs, backend, polls, isnew_locals, firmware_info,
                   current_firmware_info, github_access_token, github_urls,
                   download_locals, e, raised, wipe_vars, mstack, began>>

\* a caller other than main() calls get_firmware_repo_url on an object it
\* has just built, with shared attributes of every shape
InitRepoUrl ==
    /\ shared \in SharedInputs \cup PublishInputs
    /\ client \in ClientInputs
    /\ fs = MakeTree({<<"main.py">>, <<"code.py">>})
    /\ repo = MakeRepo(<<<<"code.py">>>>, {})
    /\ pc = "repo_url_get_shared"
    /\ Constructed

NextRepoUrl ==
    \/ GetFirmwareRepoUrl
    \/ RequestRetry
    \/ RequestExhausted

SpecRepoUrl == InitRepoUrl /\ [][NextRepoUrl]_vars

TypeOK ==
    /\ retry \in 1..Retries
    /\ failBudget \in 0..MaxTransient
    /\ pc # "crashed"

\* ================================================================== claims
\* the requests of the attempt in progress that the servers received
AttemptRequests == SubSeq(netlog, began.sent + 1, Len(netlog))
\* the FAILED telemetry points of the attempt that the backend received
FailedReports ==
    {n \in DOMAIN AttemptRequests :
        /\ AttemptRequests[n].url = tb_api_telemetry_url
        /\ Get(AttemptRequests[n].json, FW_STATE_ATTR) = StrV(FW_UPDATE_FAILED)}
\* download_firmware_files has ended
AttemptEnded == pc = "dl_return"

\* C1: when a downloaded file's computed digest differs from its declared
\* digest, download_firmware_files raises HashMismatchError and the live
\* firmware tree is what it was when the attempt began.
C1_HashMismatchRaisedTreeUnchanged ==
    (AttemptEnded /\ e.type = "HashMismatchError")
        => (raised.type = "HashMismatchError" /\ LiveTree(fs) = began.live)

\* C2: after download_firmware_files ends, by any exit path, the staging
\* directory temp-firmware does not exist.
C2_StagingAbsentAfterAttempt ==
    AttemptEnded => ~Exists(fs, StagingPath)

\* a path of a listing, split at "/"
RepoPathSplit(path) == CHOOSE q \in RepoPaths : Join(q, "/") = path
\* the files the repository holds, as a tree: the staged set of a good repository
StagedSet ==
    LET S == {RepoPathSplit(q) : q \in DOMAIN repo.raw}
        dirs == {SubSeq(q, 1, n) : <<q, n>> \in
                    {<<q, n>> \in S \X (1..2) : n < Len(q)}}
    IN  [p \in S \cup dirs |->
            IF p \in S THEN FileEntry(repo.raw[Join(p, "/")]) ELSE DirEntry]
\* an entry the allow-list names: an entry-point file or the lib directory
\* and what is in it
AllowListed(p) ==
    \/ p[Len(p)] \in keep_files
    \/ p[1] = "lib"
\* the fully replaced tree: the allow-listed survivors and the staged set
PostUpdateTree(live) ==
    StagedSet @@ [p \in {q \in DOMAIN live : AllowListed(q)} |-> live[p]]

\* C3: at every point in time the live firmware tree is either the
\* pre-update tree or the fully replaced post-update tree, never a mixture
\* or a partial set.
C3_LiveTreeNeverPartial ==
    \/ LiveTree(fs) = began.live
    \/ LiveTree(fs) = PostUpdateTree(began.live)

\* the wipe and the move of _update_firmware have both returned
SwapDone == pc = "post_attrs"

\* C4: after a successful swap every file under the live firmware tree is a
\* file of the staged set, except the allow-listed entry-point files and
\* the lib directory, which are as they were before the swap.
C4_LiveTreeIsStagedSetAndSurvivors ==
    SwapDone =>
        \A p \in DOMAIN LiveTree(fs) :
            fs[p].kind = "file" =>
                \/ p \in DOMAIN StagedSet /\ fs[p] = StagedSet[p]
                \/ AllowListed(p) /\ p \in DOMAIN began.live /\ fs[p] = began.live[p]

\* the error of a failed attempt: the one the except clause caught, or the
\* one that left the function past it
AttemptError == IF e # NoError THEN e ELSE raised

\* C5: each of the four error kinds raised in an attempt is caught at the top
\* of download_firmware_files, causes one FAILED telemetry point carrying
\* its message to be sent, and is then re-raised to the caller.
C5_EveryErrorReportedAndReRaised ==
    (AttemptEnded /\ raised \notin ReloadOutcomes) =>
        /\ e = AttemptError
        /\ Cardinality(FailedReports) = 1
        /\ \A n \in FailedReports :
              Get(AttemptRequests[n].json, FW_ERROR_ATTR) = StrV(AttemptError.msg)
        /\ raised = AttemptError

\* C6: when the attempt fails with error E and the FAILED report cannot be
\* sent either, the error that reaches the caller is E.
C6_ReportFailureDoesNotMask ==
    (AttemptEnded /\ e # NoError /\ FailedReports = {}) => raised = e

\* a failed attempt of a request: the environment spent a transient failure
AttemptFailed == failBudget' < failBudget

\* C7: every request helper makes at most 3 attempts with the same request;
\* when an attempt succeeds the helper returns after that one delivery and
\* attempts no more; when the third attempt fails it raises ConnectionError.
C7_AtMostThreeAttempts ==
    [][ /\ retry' \in 1..Retries
        /\ AttemptFailed =>
              /\ pc \in RequestSites
              /\ netlog' = netlog
              /\ IF retry < Retries
                 THEN /\ retry' = retry + 1
                      /\ pc' = pc
                      /\ CurrentRequest' = CurrentRequest
                 ELSE IF pc \in IsNewSites
                      THEN available' = "ConnectionError" /\ pc' = "poll"
                      ELSE raised'.type = "ConnectionError" /\ pc' = "finally"
        /\ netlog' # netlog =>
              /\ pc \in RequestSites
              /\ netlog' = Append(netlog, CurrentRequest)
              /\ retry' = 1
              /\ failBudget' = failBudget
      ]_vars

\* three attempts of one request have failed and the helper has raised
\* ConnectionError out of download_firmware_files
C7_Witness ==
    /\ pc = "finally"
    /\ raised.type = "ConnectionError"
    /\ failBudget = MaxTransient - Retries

\* the access token of the published repository URL, None without one
PublishedToken ==
    url_access_token(UrlSplit(GetDefault(shared, FW_URL_ATTR, StrV("")).s))

\* C8: when the repository URL carries an access token every repository
\* request carries an authorization header that holds it; when it carries
\* none, no repository request has an authorization header.
C8_TokenOnEveryRepositoryRequest ==
    \A n \in DOMAIN netlog :
        netlog[n].helper = "Github._get_request" =>
            IF PublishedToken # NoneV
            THEN /\ "Authorization" \in DOMAIN netlog[n].headers
                 /\ netlog[n].headers["Authorization"] \in
                       {"token " \o PublishedToken.s, "Bearer " \o PublishedToken.s}
            ELSE DOMAIN netlog[n].headers = {}

\* is_new_firmware_available has returned a value
IsNewReturned == available \in {"True", "False"}

\* C9: is_new_firmware_available returns False whenever one of the three
\* shared keys is absent, whatever the client attributes are.
C9_AbsentKeyMeansNoUpdate ==
    (IsNewReturned /\ \E n \in 1..Len(ATTRIBUTE_KEYS) :
                          ATTRIBUTE_KEYS[n] \notin DOMAIN remote_fw_info)
        => available = "False"

\* a call returned False with a shared key absent although the titles differ
C9_Witness ==
    /\ available = "False"
    /\ FW_URL_ATTR \notin DOMAIN remote_fw_info
    /\ FW_TITLE_ATTR \in DOMAIN remote_fw_info
    /\ FW_VERSION_ATTR \in DOMAIN remote_fw_info
    /\ Get(remote_fw_info, FW_TITLE_ATTR) # NoneV
    /\ Get(remote_fw_info, FW_VERSION_ATTR) # NoneV
    /\ Get(remote_fw_info, FW_TITLE_ATTR) # Get(client_fw_info, FW_TITLE_ATTR)

\* C10: with the three shared keys present, is_new_firmware_available
\* returns True if and only if the titles differ or the versions differ
\* after both are normalized to strings, an absent client version being
\* the empty string.
C10_DiffersAfterNormalizingBoth ==
    (IsNewReturned /\ remote_firmware_exists(remote_fw_info)) =>
        (available = "True" <=>
            \/ Get(remote_fw_info, FW_TITLE_ATTR) # Get(client_fw_info, FW_TITLE_ATTR)
            \/ PyStr(Get(remote_fw_info, FW_VERSION_ATTR))
                  # PyStr(GetDefault(client_fw_info, FW_VERSION_ATTR, StrV(""))))

\* the fw_state of the telemetry points of the attempt, in the order the
\* backend received them
AttemptStatuses ==
    LET IsTelemetry(r) == r.url = tb_api_telemetry_url
        points == SelectSeq(AttemptRequests, IsTelemetry)
    IN  [n \in 1..Len(points) |-> Get(points[n].json, FW_STATE_ATTR).s]
StatusSent(fw_status) == \E n \in DOMAIN AttemptStatuses : AttemptStatuses[n] = fw_status
\* the status points of an attempt that succeeds
SuccessOrder ==
    <<FW_UPDATE_DOWNLOADING, FW_UPDATE_VERIFIED, FW_UPDATE_DOWNLOADED,
      FW_UPDATE_UPDATING, FW_UPDATE_UPDATED>>
\* download_firmware_files has issued the restart signal
AttemptSucceeded == raised \in ReloadOutcomes

\* the files the repository lists (path and declared digest), in listing order
DeclaredFiles ==
    LET IsBlob(item) == item.type = "blob"
    IN  SelectSeq(repo.tree, IsBlob)
\* the content at p has the digest d
HasDigest(p, d) ==
    /\ p \in DOMAIN fs
    /\ fs[p].kind = "file"
    /\ create_sha1_git_hash(fs[p].data) = d
\* the listed file n is in the staging tree with its declared digest
Staged(n) ==
    HasDigest(StagingPath \o RepoPathSplit(DeclaredFiles[n].path), DeclaredFiles[n].sha)
\* the listed file n has been moved to the live tree with its declared digest
Promoted(n) ==
    HasDigest(directory \o RepoPathSplit(DeclaredFiles[n].path), DeclaredFiles[n].sha)

\* no exception has been raised in the attempt
NothingRaised == e = NoError /\ raised = NoError

\* C11: on a successful attempt the status points are sent once each in the
\* order DOWNLOADING, VERIFIED, DOWNLOADED, UPDATING, UPDATED (at every moment
\* the points sent so far, FAILED aside, are a prefix of that order); when
\* VERIFIED is sent, and from then on while nothing is raised, every listed
\* file is verified and staged (or, once the swap runs, moved to the live
\* tree); and the live tree is unchanged until UPDATING has been sent.
C11_StatusOrder ==
    LET IsProgress(s) == s # FW_UPDATE_FAILED
        progress == SelectSeq(AttemptStatuses, IsProgress)
    IN  /\ Len(progress) <= Len(SuccessOrder)
        /\ progress = SubSeq(SuccessOrder, 1, Len(progress))
        /\ AttemptSucceeded => AttemptStatuses = SuccessOrder
        /\ (\/ pc = "notify_verified"
            \/ StatusSent(FW_UPDATE_VERIFIED) /\ NothingRaised) =>
              /\ files = << >>
              /\ \A n \in DOMAIN DeclaredFiles : Staged(n) \/ Promoted(n)
              /\ ~StatusSent(FW_UPDATE_UPDATING) =>
                    \A n \in DOMAIN DeclaredFiles : Staged(n)
        /\ LiveTree(fs) # began.live => StatusSent(FW_UPDATE_UPDATING)

\* an attempt that staged two files and replaced the live tree has ended
\* with the restart signal, the five status points sent
C11_Witness ==
    /\ AttemptEnded
    /\ AttemptSucceeded
    /\ AttemptStatuses = SuccessOrder
    /\ Len(DeclaredFiles) = 2
    /\ LiveTree(fs) # began.live

\* the wipe and the move have returned: the staging directory is gone and
\* every listed file is in the live tree with its declared digest
SwapCompleted ==
    /\ wstack = << >>
    /\ mstack = << >>
    /\ ~Exists(fs, StagingPath)
    /\ \A n \in DOMAIN DeclaredFiles : Promoted(n)
\* the request n of the attempt publishes the descriptor read at line 408
Publishes(n) == AttemptRequests[n] = TbPost(tb_api_attributes_url, firmware_info)
\* the request n of the attempt reports UPDATED
ReportsUpdated(n) ==
    /\ AttemptRequests[n].url = tb_api_telemetry_url
    /\ Get(AttemptRequests[n].json, FW_STATE_ATTR) = StrV(FW_UPDATE_UPDATED)

\* C12: the restart signal is issued only after the swap has completed,
\* then the desired descriptor has been published to the client attributes,
\* then UPDATED has been reported; an attempt in which an error was caught
\* or FAILED was reported never issues it.
C12_RestartAfterSwapPublishReport ==
    /\ (\E n \in DOMAIN AttemptRequests : Publishes(n)) => SwapCompleted
    /\ \A n \in DOMAIN AttemptRequests :
          ReportsUpdated(n) => n > 1 /\ Publishes(n - 1)
    /\ AttemptSucceeded =>
          /\ \E n \in DOMAIN AttemptRequests : ReportsUpdated(n)
          /\ \A k \in DOMAIN firmware_info : Get(client, k) = firmware_info[k]
          /\ SwapCompleted
    /\ (e # NoError \/ FailedReports # {}) => ~AttemptSucceeded
    /\ (pc = "reload" \/ AttemptSucceeded) =>
          AttemptStatuses = SuccessOrder

\* the restart signal has been issued: the live tree is replaced and the
\* backend holds the new version in the client attributes
C12_Witness ==
    /\ AttemptEnded
    /\ AttemptSucceeded
    /\ LiveTree(fs) # began.live
    /\ Get(client, FW_VERSION_ATTR) = StrV("2")
    /\ \E n \in DOMAIN AttemptRequests : ReportsUpdated(n)

\* the request n of the attempt went to the repository host
ToRepositoryHost(n) == AttemptRequests[n].helper = "Github._get_request"
RepositoryRequests == {n \in DOMAIN AttemptRequests : ToRepositoryHost(n)}
\* the tree listing of the attempt has been answered
TreeListed ==
    \E n \in RepositoryRequests : AttemptRequests[n].url = github_urls.api
\* the answer to the tree listing has no entry of kind file
NoFileListed ==
    LET response_json == GithubTreeResponse(github_urls.api)
    IN  \/ "tree" \notin DOMAIN response_json
        \/ \A n \in DOMAIN response_json["tree"] :
              response_json["tree"][n].type # "blob"

\* C13: when the tree listing has no entry of kind file (an empty tree, a
\* tree of directories only, a missing tree), EmptyGithubRepoError is raised,
\* the listing is the only request the repository host receives in the
\* attempt, and nothing is written below the staging directory.
C13_EmptyListingRaisesBeforeDownload ==
    (TreeListed /\ NoFileListed) =>
        /\ e.type = "EmptyGithubRepoError"
        /\ Cardinality(RepositoryRequests) = 1
        /\ ~Exists(fs, StagingPath)
        /\ StagedEntries(fs) = {}
        /\ LiveTree(fs) = began.live

\* the listing of a repository that holds a directory and no file has been
\* answered and the attempt has ended
C13_Witness ==
    /\ AttemptEnded
    /\ TreeListed
    /\ repo.tree # << >>
    /\ NoFileListed
    /\ e.type = "EmptyGithubRepoError"

\* a source URL of the form scheme://host/owner/repo or
\* scheme://host/owner/repo/token, with or without a closing "/"
WellFormedUrl(segs) ==
    /\ Len(segs) \in 5..7
    /\ segs[1] \in {Chars_http, Chars_https}
    /\ segs[2] = << >>
    /\ \A n \in 3..5 : segs[n] # << >>
    /\ Len(segs) = 7 => (segs[6] # << >> /\ segs[7] = << >>)
\* the source URL the attempt read at line 408 is malformed: the key fw_url
\* is absent, or its value is not a string, or it is a string that is not a
\* well-formed source URL
MalformedSourceUrl ==
    \/ FW_URL_ATTR \notin DOMAIN firmware_info
    \/ firmware_info[FW_URL_ATTR].t # "str"
    \/ ~WellFormedUrl(UrlSplit(firmware_info[FW_URL_ATTR].s))
\* download_firmware_files has called _download_firmware
DownloadBegun ==
    /\ StatusSent(FW_UPDATE_DOWNLOADING)
    /\ pc # "download_files_from_repo"

\* the request n, of an earlier attempt, reports DOWNLOADING
ReportsDownloading(n) ==
    /\ netlog[n].url = tb_api_telemetry_url
    /\ Get(netlog[n].json, FW_STATE_ATTR) = StrV(FW_UPDATE_DOWNLOADING)

\* C14: when the source URL of the attempt is malformed or absent, the
\* attempt raises InvalidGithubRepoUrlError (it is the error caught, and the
\* error that leaves download_firmware_files), the repository host receives
\* no request in the attempt (neither the tree listing nor a file
\* download), and nothing is tried again: after DOWNLOADING the only request
\* of the attempt is the one FAILED report, the live tree is unchanged, and
\* while the operator publishes nothing else no earlier attempt was made
\* with the same URL.
C14_MalformedUrlRaisesBeforeRequests ==
    (DownloadBegun /\ MalformedSourceUrl) =>
        /\ e.type = "InvalidGithubRepoUrlError"
        /\ AttemptEnded => raised.type = "InvalidGithubRepoUrlError"
        /\ RepositoryRequests = {}
        /\ Cardinality(FailedReports) <= 1
        /\ AttemptStatuses \in {<<FW_UPDATE_DOWNLOADING>>,
                                 <<FW_UPDATE_DOWNLOADING, FW_UPDATE_FAILED>>}
        /\ LiveTree(fs) = began.live
        /\ publishes = 0 => \A n \in 1..began.sent : ~ReportsDownloading(n)

\* the wipe of the swap is in progress
SwapWipes == pc = "wipe" /\ wret = "move_folder_contents"
\* the file requests of the attempt are those of the whole listing
AllDownloaded ==
    /\ files = << >>
    /\ Cardinality(RepositoryRequests) = 1 + Len(DeclaredFiles)

\* C15: the live tree is changed only after every listed file has been
\* downloaded, has passed the digest check and has been staged (while the
\* wipe runs every listed file is in the staging tree, later it is there
\* or moved to the live tree); and at every moment every file in the
\* staging tree is a listed file whose digest is the declared one.
C15_NoSwapOnPartialDownload ==
    /\ SwapWipes =>
          /\ AllDownloaded
          /\ \A n \in DOMAIN DeclaredFiles : Staged(n)
    /\ LiveTree(fs) # began.live =>
          /\ AllDownloaded
          /\ \A n \in DOMAIN DeclaredFiles : Staged(n) \/ Promoted(n)
    /\ \A p \in StagedEntries(fs) :
          fs[p].kind = "file" =>
              \E n \in DOMAIN DeclaredFiles :
                  /\ p = StagingPath \o RepoPathSplit(DeclaredFiles[n].path)
                  /\ Staged(n)

\* the wipe of the swap has deleted from the live tree while the two
\* listed files are in the staging tree
C15_Witness ==
    /\ SwapWipes
    /\ LiveTree(fs) # began.live
    /\ Len(DeclaredFiles) = 2
    /\ \A n \in DOMAIN DeclaredFiles : Staged(n)

\* two descriptors differ in (title, version), the versions taken as strings
DescriptorsDiffer(desired, current) ==
    \/ Get(desired, FW_TITLE_ATTR) # Get(current, FW_TITLE_ATTR)
    \/ PyStr(Get(desired, FW_VERSION_ATTR))
          # PyStr(GetDefault(current, FW_VERSION_ATTR, StrV("")))
\* download_firmware_files has read both descriptors (lines 408 and 411)
DescriptorsRead == Len(AttemptRequests) >= 2

\* C16: when the descriptors download_firmware_files reads do not differ in
\* (title, version), no DOWNLOADING point is sent, the repository host
\* receives no request, and the staging and live trees are untouched.
C16_NoTransitionWhenEqual ==
    (DescriptorsRead /\ ~DescriptorsDiffer(firmware_info, current_firmware_info)) =>
        /\ ~StatusSent(FW_UPDATE_DOWNLOADING)
        /\ RepositoryRequests = {}
        /\ StagedEntries(fs) = {}
        /\ LiveTree(fs) = began.live

\* the file downloads of the attempt the repository host received, in order
FileRequests ==
    LET IsDownload(r) ==
            /\ r.helper = "Github._get_request"
            /\ r.url # github_urls.api
    IN  SelectSeq(AttemptRequests, IsDownload)
\* the URL of the listed file n
FileUrl(n) == github_raw_url("owner", "repo") \o "/" \o DeclaredFiles[n].path
\* the content the repository serves for the listed file n has another
\* digest than the declared one
Corrupt(n) ==
    create_sha1_git_hash(repo.raw[DeclaredFiles[n].path]) # DeclaredFiles[n].sha

\* the k-th file request of an attempt is for the k-th listed file; while
\* the generator is asked for the next file, and as long as nothing is
\* raised, every file requested so far is verified and staged (or moved to
\* the live tree by the swap); and after a digest mismatch the mismatching
\* file is the last one requested
DownloadsInListingOrder ==
    /\ Len(FileRequests) <= Len(DeclaredFiles)
    /\ \A k \in DOMAIN FileRequests : FileRequests[k].url = FileUrl(k)
    /\ (pc = "gh_file" \/ (FileRequests # << >> /\ NothingRaised)) =>
          /\ \A k \in DOMAIN FileRequests : Staged(k) \/ Promoted(k)
          /\ Len(files) = Len(DeclaredFiles) - Len(FileRequests)
    /\ pc = "gh_file" =>
          /\ \A k \in DOMAIN FileRequests : Staged(k)
          /\ files[1].path = DeclaredFiles[Len(FileRequests) + 1].path
    /\ e.type = "HashMismatchError" =>
          /\ FileRequests # << >>
          /\ Corrupt(Len(FileRequests))
          /\ \A k \in 1..(Len(FileRequests) - 1) : ~Corrupt(k)

\* C17: the files are downloaded one at a time in listing order, the
\* request for the next file is issued only after the file before has been
\* verified and staged, no file is requested after a digest mismatch, and
\* at most one file's bytes are held at once.
C17_OneFileAtATimeInListingOrder ==
    /\ DownloadsInListingOrder
    /\ Cardinality(resident) <= 1

\* the wipe of the swap has returned
SwapWiped == pc = "move_folder_contents"
\* an entry the wipe is to spare: an allow-listed file at the top level, an
\* allow-listed directory at the top level, or what is in such a directory
TopLevelAllowListed(p) ==
    \/ Len(p) = 1 /\ fs[p].kind = "file" /\ p[1] \in keep_files
    \/ fs[<<p[1]>>].kind = "dir" /\ p[1] \in keep_folders

\* C18: for every live tree shape, after the wipe of the swap no entry
\* remains under the live firmware directory except the top-level
\* allow-listed files and the top-level allow-listed directories.
C18_WipeLeavesOnlyTopLevelAllowList ==
    SwapWiped => \A p \in DOMAIN fs : TopLevelAllowListed(p)

\* download_firmware_files has been called and has staged nothing yet
AttemptBegins ==
    pc \in {"dl_get_shared", "dl_get_client", "notify_downloading",
            "download_files_from_repo", "gh_tree"}
\* an attempt is in progress
InAttempt ==
    pc \notin {"poll", "isnew_get_client", "isnew_get_shared", "crashed", "left"}

\* C19: over the attempts the poll loop drives, whatever way each one ends,
\* the staging tree is absent or empty when an attempt begins, and what is
\* in it during an attempt is a file this attempt requested (or the
\* directory of one).
C19_StagingCleanWhenAttemptBegins ==
    /\ AttemptBegins => StagedEntries(fs) = {}
    /\ InAttempt =>
          \A p \in StagedEntries(fs) :
              \E k \in DOMAIN FileRequests :
                  IsPrefix(p, StagingPath \o RepoPathSplit(DeclaredFiles[k].path))

\* the second attempt begins after an attempt that staged a file and
\* failed: the staging directory is there and it is empty
C19_Witness ==
    /\ polls = 2
    /\ pc = "dl_get_shared"
    /\ Exists(fs, StagingPath)
    /\ StagedEntries(fs) = {}

\* the fw_state of the last telemetry point the backend received
LastStatus ==
    LET IsTelemetry(r) == r.url = tb_api_telemetry_url
        points == SelectSeq(netlog, IsTelemetry)
    IN  IF points = << >> THEN ""
        ELSE Get(points[Len(points)].json, FW_STATE_ATTR).s
\* is_new_firmware_available returns, the attempt before having succeeded:
\* it reported UPDATED, after which the restart signal is issued, and the
\* program, restarted or not, polls again
ReturnsAfterSuccess ==
    /\ pc = "isnew_get_shared"
    /\ LastStatus = FW_UPDATE_UPDATED
    /\ netlog' # netlog

\* C20: after a successful attempt, the desired descriptor being unchanged
\* and having its three keys, the next is_new_firmware_available returns
\* False, whatever the type of the desired version.
C20_ConvergesAfterSuccess ==
    [][ (ReturnsAfterSuccess /\ shared' = shared /\ remote_firmware_exists(shared))
            => available' = "False" ]_vars

\* the backend has received a FAILED telemetry point of the attempt
FailedSent == FailedReports # {}
\* the request n of the attempt overwrites the client attributes
OverwritesClientAttributes(n) ==
    /\ AttemptRequests[n].method = "POST"
    /\ AttemptRequests[n].url = tb_api_attributes_url
\* the swap of the attempt has begun: _update_firmware is wiping or moving,
\* or it has changed the live tree or published the descriptor
SwapBegun ==
    \/ SwapWipes
    \/ pc \in {"move_folder_contents", "move", "post_attrs"}
    \/ mstack # << >>
    \/ LiveTree(fs) # began.live
    \/ \E n \in DOMAIN AttemptRequests : OverwritesClientAttributes(n)

\* C21: once a FAILED telemetry point of an attempt has been sent, the swap
\* of that attempt has not begun and does not begin: the live firmware tree
\* is what it was when the attempt began and no request of the attempt has
\* overwritten the client attributes.
C21_FailedOnlyBeforeSwap ==
    FailedSent =>
        /\ ~SwapBegun
        /\ LiveTree(fs) = began.live
        /\ \A n \in DOMAIN AttemptRequests : ~OverwritesClientAttributes(n)
\* a second file's digest mismatch is reported as FAILED while the first
\* file is staged and the live tree holds files the swap would remove
C21_Witness ==
    /\ pc = "finally"
    /\ FailedSent
    /\ e.type = "HashMismatchError"
    /\ StagedEntries(fs) # {}
    /\ \E p \in DOMAIN began.live : ~AllowListed(p)

====
